---- MODULE Spec2Model ----
(***************************************************************************)
(* WeatherBusLite: master-side driver of an ASCII query/response protocol   *)
(* on a half-duplex RS485 bus.  The model follows WeatherBusLite.cpp:       *)
(* the ten query operations, sendQuery and parseResponse, one action per    *)
(* statement that touches the bus, the clock or the parser state.           *)
(* Bytes are their ASCII codes.  Measurement values are exact decimals      *)
(* [m, e] standing for m * 10^e (float rounding is not modelled).           *)
(***************************************************************************)
EXTENDS Integers, Sequences, FiniteSets

VARIABLES
    pc,            \* position of the single caller thread
    query,         \* sendQuery's argument (the characters before the NUL)
    expectedType,  \* parseResponse's first argument
    state,         \* parseResponse: ParseState
    response,      \* parseResponse: char response[32]
    index,         \* parseResponse: int index
    startMillis,   \* parseResponse: unsigned long startMillis
    value,         \* the caller's float, passed by reference
    ret,           \* what the last query call returned ("none" before/inside a call)
    now,           \* the Arduino millisecond counter, 32 bits
    rxEnabled,     \* RS485 receive path (receive / noReceive)
    txOpen,        \* RS485 transmit session (beginTransmission / endTransmission)
    rxq,           \* bytes pending in the serial receive queue
    wire,          \* bytes the bus will still deliver to the receiver
    sent,          \* bytes this call has written to the bus
    events,        \* bus operations of this call, in order
    paused,        \* milliseconds this call spent in delay()
    consumed,      \* bytes this call has read from the receive queue
    calls,         \* query calls started so far
    pending,       \* bytes that were in the receive queue when this call began
    waited         \* milliseconds that passed since this call read startMillis

vars == <<pc, query, expectedType, state, response, index, startMillis, value,
          ret, now, rxEnabled, txOpen, rxq, wire, sent, events, paused,
          consumed, calls, pending, waited>>

-----------------------------------------------------------------------------
(* Program constants *)

WEATHERBUSLITE_RESPONSE_TIMEOUT == 1000
WEATHERBUSLITE_GRACE == 2
RESPONSE_SIZE == 32
NUL == 0
LF == 10
CR == 13
COLON == 58
QMARK == 63

(* Bounds of the model *)

MaxJunk == 1        \* bytes of noise ahead of a response
RxQueueCap == 4     \* bytes the receive queue holds before the reader drains it
MaxCalls == 2       \* query calls of a session
MaxConsumed == 40   \* bytes of a call kept in the record of what was read

-----------------------------------------------------------------------------
(* unsigned long: a 32-bit counter kept as two 16-bit halves *)

W16 == 2^16

U32(h, l) == [hi |-> h, lo |-> l]

Add32(t, d) ==
    LET s == t.lo + d
    IN  U32((t.hi + (s \div W16)) % W16, s % W16)

Sub32(a, b) ==
    LET borrow == IF a.lo < b.lo THEN 1 ELSE 0
    IN  U32((a.hi - b.hi - borrow + W16) % W16, (a.lo - b.lo + W16) % W16)

Less32(a, c) == a.hi = 0 /\ a.lo < c

-----------------------------------------------------------------------------
(* C library functions used by parseResponse *)

RECURSIVE strchrFrom(_, _, _)
strchrFrom(buf, i, c) ==
    IF i >= RESPONSE_SIZE THEN -1
    ELSE IF buf[i] = c THEN i
    ELSE IF buf[i] = NUL THEN -1
    ELSE strchrFrom(buf, i + 1, c)

\* strchr(response, c): position of the first c ahead of the first NUL, -1 for nullptr
strchr(buf, c) == strchrFrom(buf, 0, c)

RECURSIVE CStr(_, _)
\* the C string that starts at buf[i]: the bytes ahead of the first NUL
CStr(buf, i) ==
    IF i >= RESPONSE_SIZE \/ buf[i] = NUL THEN <<>>
    ELSE <<buf[i]>> \o CStr(buf, i + 1)

isspace(c) == c = 32 \/ (c >= 9 /\ c <= 13)
isdigit(c) == c >= 48 /\ c <= 57

RECURSIVE SkipSpace(_)
SkipSpace(s) ==
    IF s # <<>> /\ isspace(Head(s)) THEN SkipSpace(Tail(s)) ELSE s

RECURSIVE DigitRun(_)
\* the longest prefix of s made of decimal digits
DigitRun(s) ==
    IF s # <<>> /\ isdigit(Head(s)) THEN <<Head(s)>> \o DigitRun(Tail(s)) ELSE <<>>

RECURSIVE DigitsValue(_, _)
DigitsValue(ds, acc) ==
    IF ds = <<>> THEN acc ELSE DigitsValue(Tail(ds), acc * 10 + (Head(ds) - 48))

Drop(s, n) == SubSeq(s, n + 1, Len(s))

RECURSIVE Normal(_, _)
\* the decimal m * 10^e with no trailing zero in m
Normal(m, e) ==
    IF m = 0 THEN [m |-> 0, e |-> 0]
    ELSE IF m % 10 = 0 THEN Normal(m \div 10, e + 1)
    ELSE [m |-> m, e |-> e]

\* a slip: atoi in place of atof, the fraction is lost
atof_atoi(s) ==
    LET s1  == SkipSpace(s)
        neg == s1 # <<>> /\ Head(s1) = 45
        s2  == IF s1 # <<>> /\ Head(s1) \in {43, 45} THEN Tail(s1) ELSE s1
        mag == DigitsValue(DigitRun(s2), 0)
    IN  Normal(IF neg THEN 0 - mag ELSE mag, 0)

\* atof(s): optional white space, sign, digits, '.', digits, exponent; what
\* follows the longest numeric prefix is ignored and no numeric prefix gives 0.0
atof(s) ==
    LET s1    == SkipSpace(s)
        neg   == s1 # <<>> /\ Head(s1) = 45
        s2    == IF s1 # <<>> /\ Head(s1) \in {43, 45} THEN Tail(s1) ELSE s1
        ip    == DigitRun(s2)
        s3    == Drop(s2, Len(ip))
        dot   == s3 # <<>> /\ Head(s3) = 46
        fp    == IF dot THEN DigitRun(Tail(s3)) ELSE <<>>
        s4    == IF dot THEN Drop(s3, 1 + Len(fp)) ELSE s3
        hasE  == s4 # <<>> /\ Head(s4) \in {69, 101}
        s5    == IF hasE THEN Tail(s4) ELSE <<>>
        eneg  == s5 # <<>> /\ Head(s5) = 45
        s6    == IF s5 # <<>> /\ Head(s5) \in {43, 45} THEN Tail(s5) ELSE s5
        ep    == DigitRun(s6)
        ex    == IF eneg THEN 0 - DigitsValue(ep, 0) ELSE DigitsValue(ep, 0)
        mag   == DigitsValue(ip \o fp, 0)
    IN  IF ip = <<>> /\ fp = <<>> THEN [m |-> 0, e |-> 0]
        ELSE Normal(IF neg THEN 0 - mag ELSE mag, ex - Len(fp))

-----------------------------------------------------------------------------
(* parseResponse: the byte switch and the check made once a frame is done *)

ParseStates == {"WAIT_FOR_START", "READ_PAYLOAD", "DONE"}

\* a slip: DONE starts over with the next frame
parseByte_restart(st, buf, idx, incoming, expected) ==
    CASE st = "READ_PAYLOAD" ->
            IF incoming = LF \/ idx >= RESPONSE_SIZE - 1
            THEN [state |-> "DONE",
                  response |-> [buf EXCEPT ![idx] = NUL],
                  index |-> idx]
            ELSE [state |-> st,
                  response |-> [buf EXCEPT ![idx] = incoming],
                  index |-> idx + 1]
      [] OTHER ->
            IF incoming = expected
            THEN [state |-> "READ_PAYLOAD",
                  response |-> [[i \in 0 .. RESPONSE_SIZE - 1 |-> NUL] EXCEPT ![0] = incoming],
                  index |-> 1]
            ELSE [state |-> st, response |-> buf, index |-> idx]

\* a slip: the capacity test compares with sizeof(response), not with
\* sizeof(response) - 1
parseByte_offByOne(st, buf, idx, incoming, expected) ==
    CASE st = "WAIT_FOR_START" ->
            IF incoming = expected
            THEN [state |-> "READ_PAYLOAD",
                  response |-> [buf EXCEPT ![idx] = incoming],
                  index |-> idx + 1]
            ELSE [state |-> st, response |-> buf, index |-> idx]
      [] st = "READ_PAYLOAD" ->
            IF incoming = LF \/ idx >= RESPONSE_SIZE
            THEN [state |-> "DONE",
                  response |-> [buf EXCEPT ![idx] = NUL],
                  index |-> idx]
            ELSE [state |-> st,
                  response |-> [buf EXCEPT ![idx] = incoming],
                  index |-> idx + 1]
      [] OTHER -> [state |-> st, response |-> buf, index |-> idx]

\* a slip: a full buffer is an error that throws the frame away
parseByte_overflowDrops(st, buf, idx, incoming, expected) ==
    CASE st = "WAIT_FOR_START" ->
            IF incoming = expected
            THEN [state |-> "READ_PAYLOAD",
                  response |-> [buf EXCEPT ![idx] = incoming],
                  index |-> idx + 1]
            ELSE [state |-> st, response |-> buf, index |-> idx]
      [] st = "READ_PAYLOAD" ->
            IF incoming = LF
            THEN [state |-> "DONE",
                  response |-> [buf EXCEPT ![idx] = NUL],
                  index |-> idx]
            ELSE IF idx >= RESPONSE_SIZE - 1
            THEN [state |-> "WAIT_FOR_START",
                  response |-> [i \in 0 .. RESPONSE_SIZE - 1 |-> NUL],
                  index |-> 0]
            ELSE [state |-> st,
                  response |-> [buf EXCEPT ![idx] = incoming],
                  index |-> idx + 1]
      [] OTHER -> [state |-> st, response |-> buf, index |-> idx]

\* a slip: the start byte compared with 'T' whatever the channel
parseByte_fixedT(st, buf, idx, incoming, expected) ==
    CASE st = "WAIT_FOR_START" ->
            IF incoming = 84
            THEN [state |-> "READ_PAYLOAD",
                  response |-> [buf EXCEPT ![idx] = incoming],
                  index |-> idx + 1]
            ELSE [state |-> st, response |-> buf, index |-> idx]
      [] st = "READ_PAYLOAD" ->
            IF incoming = LF \/ idx >= RESPONSE_SIZE - 1
            THEN [state |-> "DONE",
                  response |-> [buf EXCEPT ![idx] = NUL],
                  index |-> idx]
            ELSE [state |-> st,
                  response |-> [buf EXCEPT ![idx] = incoming],
                  index |-> idx + 1]
      [] OTHER -> [state |-> st, response |-> buf, index |-> idx]

\* the switch of lines 205-224: parser state, buffer and index after one byte
parseByte(st, buf, idx, incoming, expected) ==
    CASE st = "WAIT_FOR_START" ->
            IF incoming = expected
            THEN [state |-> "READ_PAYLOAD",
                  response |-> [buf EXCEPT ![idx] = incoming],
                  index |-> idx + 1]
            ELSE [state |-> st, response |-> buf, index |-> idx]
      [] st = "READ_PAYLOAD" ->
            IF incoming = LF \/ idx >= RESPONSE_SIZE - 1
            THEN [state |-> "DONE",
                  response |-> [buf EXCEPT ![idx] = NUL],
                  index |-> idx]
            ELSE [state |-> st,
                  response |-> [buf EXCEPT ![idx] = incoming],
                  index |-> idx + 1]
      [] OTHER -> [state |-> st, response |-> buf, index |-> idx]

\* a slip: the colon is looked for while the payload is still being read
frameAccepted_partial(st, buf) == st # "WAIT_FOR_START" /\ strchr(buf, COLON) # -1

\* lines 226-228: the frame is done and strchr finds a colon in it
frameAccepted(st, buf) == st = "DONE" /\ strchr(buf, COLON) # -1

\* a slip: atof(colonPos), the colon not skipped
frameValue_atColon(buf) == atof(CStr(buf, strchr(buf, COLON)))

\* line 229: atof(colonPos + 1)
frameValue(buf) == atof(CStr(buf, strchr(buf, COLON) + 1))

\* a slip: the budget compared with the other timing macro
withinBudget_grace(t, start) == Less32(Sub32(t, start), WEATHERBUSLITE_GRACE)

\* a slip: the clock compared with a deadline, millis() < startMillis +
\* WEATHERBUSLITE_RESPONSE_TIMEOUT, the sum taken in 32 bits
withinBudget_deadline(t, start) ==
    LET deadline == Add32(start, WEATHERBUSLITE_RESPONSE_TIMEOUT)
    IN  t.hi < deadline.hi \/ (t.hi = deadline.hi /\ t.lo < deadline.lo)

\* line 201: millis() - startMillis < WEATHERBUSLITE_RESPONSE_TIMEOUT
withinBudget(t, start) == Less32(Sub32(t, start), WEATHERBUSLITE_RESPONSE_TIMEOUT)

-----------------------------------------------------------------------------
(* The bus traffic the model draws from *)

Zeros == [i \in 0 .. RESPONSE_SIZE - 1 |-> NUL]

\* the caller's variable before the first call
CallerValue == [m |-> -999, e |-> 0]

\* decimal literals and the numbers they denote: 19.75, -2.50, 7
Literals ==
    { [text |-> <<49, 57, 46, 55, 53>>, val |-> [m |-> 1975, e |-> -2]],
      [text |-> <<45, 50, 46, 53, 48>>, val |-> [m |-> -25, e |-> -1]],
      [text |-> <<55>>,                 val |-> [m |-> 7, e |-> 0]] }

Lit19 == <<49, 57, 46, 55, 53>>

Pad(n) == [i \in 1 .. n |-> 120]

\* a channel code other than x
OtherCode(x) == IF x = 84 THEN 72 ELSE 84

\* noise ahead of a response: bytes other than the expected code
JunkBytes(x) == {OtherCode(x), COLON}

RECURSIVE SeqsUpTo(_, _)
SeqsUpTo(S, n) ==
    IF n = 0 THEN {<<>>}
    ELSE LET shorter == SeqsUpTo(S, n - 1)
         IN  shorter \cup {Append(q, b) : q \in shorter, b \in S}

Junk(x) == SeqsUpTo(JunkBytes(x), MaxJunk)

\* what may stand between the code and the colon: "23.5extra", the code
\* again, a NUL, and padding that brings a frame to 31 and to 32 bytes
Prefixes(x) ==
    { <<50, 51, 46, 53, 101, 120, 116, 114, 97>>, <<x>>, <<NUL>> }

ShortFrames(x) ==
         { <<x, COLON>> \o l.text \o <<LF>> : l \in Literals }
    \cup { <<x>> \o p \o <<COLON>> \o Lit19 \o <<LF>> : p \in Prefixes(x) }
    \cup { <<x, 49, 50, LF>>,
           <<x, 49, 50, LF, x, COLON, 55, LF>>,
           <<OtherCode(x), COLON, 55, LF>>,
           <<>> }

LongFrames(x) ==
    { <<x>> \o Pad(RESPONSE_SIZE - 8) \o <<COLON>> \o Lit19 \o <<LF>>,
      <<x>> \o Pad(RESPONSE_SIZE - 7) \o <<COLON>> \o Lit19 \o <<LF>>,
      <<x>> \o Pad(RESPONSE_SIZE - 1) \o <<COLON, 55, LF>> }

\* frames whose text after the colon is not a plain literal: 19.75xyz, abc
TolerantFrames(x) ==
    { <<x, COLON>> \o Lit19 \o <<120, 121, 122, LF>>,
      <<x, COLON, 97, 98, 99, LF>> }

\* frames that overflow the buffer: a NUL ahead of the colon, and the colon
\* as the byte that arrives when 31 bytes are buffered
OverflowFrames(x) ==
    { <<x, NUL>> \o Pad(RESPONSE_SIZE - 8) \o <<COLON>> \o Lit19 \o <<LF>>,
      <<x>> \o Pad(RESPONSE_SIZE - 2) \o <<COLON, 55, LF>> }

\* the streams of a single call
CallStreams(x) ==
    { j \o f : j \in Junk(x), f \in ShortFrames(x) }
        \cup LongFrames(x) \cup TolerantFrames(x) \cup OverflowFrames(x)

\* the streams of a session of several calls: two frames back to back, a
\* frame without a colon, silence
SessionStreams(x) ==
    { <<x, COLON, 55, LF, x, COLON, 57, LF>>, <<x, 49, LF>>, <<>> }

\* what a sensor that never stops sending repeats: bytes of another channel,
\* payload without colon or line-feed, a frame without a colon, a frame
LiveStreams(x) ==
    { <<>>, <<OtherCode(x)>>, <<x, 49>>, <<x, 49, LF>>, <<x, COLON, 55, LF>> }

\* clock advance between two readings of millis() in the scan loop, and how
\* much longer than asked delay() may take: in a single call, in a session,
\* in a call with a sensor that never stops sending
Ticks(kind) ==
    CASE kind = "call"    -> {0, 999, 1000}
      [] kind = "session" -> {0, 1000}
      [] OTHER            -> {0, 500}

DelayJitter(kind) == IF kind = "call" THEN {0, 1} ELSE {0}

\* the millisecond counter when the first call is made: just after reset,
\* and shortly before the counter wraps
ResetTime == U32(0, 0)
WrapTime == U32(W16 - 1, W16 - 500)

-----------------------------------------------------------------------------
(* State after WeatherBusLite() and begin(): nothing sent, receiver off *)

InitAt(t) ==
    /\ pc = "idle"
    /\ query = <<>>
    /\ expectedType = NUL
    /\ state = "WAIT_FOR_START"
    /\ response = Zeros
    /\ index = 0
    /\ startMillis = U32(0, 0)
    /\ value = CallerValue
    /\ ret = "none"
    /\ now = t
    /\ rxEnabled = FALSE
    /\ txOpen = FALSE
    /\ rxq = <<>>
    /\ wire = <<>>
    /\ sent = <<>>
    /\ events = <<>>
    /\ paused = 0
    /\ consumed = <<>>
    /\ calls = 0
    /\ pending = <<>>
    /\ waited = 0

Init == InitAt(ResetTime)

Streams(kind, x) ==
    CASE kind = "call"    -> CallStreams(x)
      [] kind = "session" -> SessionStreams(x)
      [] OTHER            -> LiveStreams(x)

CallLimit(kind) == IF kind = "session" THEN MaxCalls ELSE 1

\* the record of the bytes read keeps the first MaxConsumed of them
Record(s, b) == IF Len(s) < MaxConsumed THEN Append(s, b) ELSE s

parserVars == <<state, response, index, startMillis>>
busVars == <<rxEnabled, txOpen, rxq, wire>>

\* a query operation is entered: sendQuery(q) comes first, parseResponse(code,
\* value) after it; the bus will deliver one of the streams of this kind.
\* parseResponse's locals of an earlier call are gone.
Call(q, code, kind) ==
    /\ pc = "idle"
    /\ calls < CallLimit(kind)
    /\ pc' = "beginTransmission"
    /\ query' = q
    /\ expectedType' = code
    /\ wire' \in Streams(kind, code)
    /\ sent' = <<>>
    /\ events' = <<>>
    /\ paused' = 0
    /\ consumed' = <<>>
    /\ ret' = "none"
    /\ calls' = calls + 1
    /\ state' = "WAIT_FOR_START"
    /\ response' = Zeros
    /\ index' = 0
    /\ startMillis' = U32(0, 0)
    /\ pending' = rxq
    /\ waited' = 0
    /\ UNCHANGED <<value, now, rxEnabled, txOpen, rxq>>

\* a slip: the body pasted from queryHumidity, only the query string changed
queryUV_pasted(kind) == Call(<<QMARK, 85>>, 72, kind)

queryTemp(kind)              == Call(<<QMARK, 84>>, 84, kind)
queryHumidity(kind)          == Call(<<QMARK, 72>>, 72, kind)
queryPressure(kind)          == Call(<<QMARK, 80>>, 80, kind)
queryAirQuality(kind)        == Call(<<QMARK, 65>>, 65, kind)
queryUV(kind)                == Call(<<QMARK, 85>>, 85, kind)
queryRainfall(kind)          == Call(<<QMARK, 82>>, 82, kind)
queryWindSpeed(kind)         == Call(<<QMARK, 87>>, 87, kind)
queryWindDirection(kind)     == Call(<<QMARK, 68>>, 68, kind)
queryCanopyTemperature(kind) == Call(<<QMARK, 67>>, 67, kind)

\* codes the model passes to queryCustom: 'Z'
CustomCodes == {90}

queryCustom(queryType, kind) == Call(<<QMARK, queryType>>, queryType, kind)

(* sendQuery *)

BeginTransmission ==
    /\ pc = "beginTransmission"
    /\ txOpen' = TRUE
    /\ events' = Append(events, "beginTransmission")
    /\ pc' = "print"
    /\ UNCHANGED <<query, expectedType, parserVars, value, ret, now, rxEnabled,
                   rxq, wire, sent, paused, consumed, calls, pending, waited>>

PrintQuery ==
    /\ pc = "print"
    /\ sent' = sent \o query
    /\ events' = Append(events, "print")
    /\ pc' = "println"
    /\ UNCHANGED <<query, expectedType, parserVars, value, ret, now, busVars,
                   paused, consumed, calls, pending, waited>>

Println ==
    /\ pc = "println"
    /\ sent' = sent \o <<CR, LF>>
    /\ events' = Append(events, "println")
    /\ pc' = "endTransmission"
    /\ UNCHANGED <<query, expectedType, parserVars, value, ret, now, busVars,
                   paused, consumed, calls, pending, waited>>

EndTransmission ==
    /\ pc = "endTransmission"
    /\ txOpen' = FALSE
    /\ events' = Append(events, "endTransmission")
    /\ pc' = "flush"
    /\ UNCHANGED <<query, expectedType, parserVars, value, ret, now, rxEnabled,
                   rxq, wire, sent, paused, consumed, calls, pending, waited>>

\* a slip: sendQuery returns after the flush, the grace pause left out
Flush_noDelay ==
    /\ pc = "flush"
    /\ events' = Append(events, "flush")
    /\ pc' = "parseResponse"
    /\ UNCHANGED <<query, expectedType, parserVars, value, ret, now, busVars,
                   sent, paused, consumed, calls, pending, waited>>

Flush ==
    /\ pc = "flush"
    /\ events' = Append(events, "flush")
    /\ pc' = "delay"
    /\ UNCHANGED <<query, expectedType, parserVars, value, ret, now, busVars,
                   sent, paused, consumed, calls, pending, waited>>

\* delay(WEATHERBUSLITE_GRACE) returns once at least that long has passed
Delay(kind) ==
    /\ pc = "delay"
    /\ \E j \in DelayJitter(kind) :
          /\ now' = Add32(now, WEATHERBUSLITE_GRACE + j)
          /\ paused' = paused + WEATHERBUSLITE_GRACE + j
    /\ events' = Append(events, "delay")
    /\ pc' = "parseResponse"
    /\ UNCHANGED <<query, expectedType, parserVars, value, ret, busVars, sent,
                   consumed, calls, pending, waited>>

(* parseResponse *)

\* a slip: stale input is thrown away when parseResponse is entered
ParseEnter_flush ==
    /\ pc = "parseResponse"
    /\ state' = "WAIT_FOR_START"
    /\ response' = Zeros
    /\ index' = 0
    /\ startMillis' = now
    /\ rxq' = <<>>
    /\ pc' = "receive"
    /\ UNCHANGED <<query, expectedType, value, ret, now, rxEnabled, txOpen,
                   wire, sent, events, paused, consumed, calls, pending, waited>>

\* lines 194-199: the locals, and startMillis = millis()
ParseEnter ==
    /\ pc = "parseResponse"
    /\ state' = "WAIT_FOR_START"
    /\ response' = Zeros
    /\ index' = 0
    /\ startMillis' = now
    /\ pc' = "receive"
    /\ UNCHANGED <<query, expectedType, value, ret, now, busVars, sent, events,
                   paused, consumed, calls, pending, waited>>

Receive ==
    /\ pc = "receive"
    /\ rxEnabled' = TRUE
    /\ events' = Append(events, "receive")
    /\ pc' = "while"
    /\ UNCHANGED <<query, expectedType, parserVars, value, ret, now, txOpen,
                   rxq, wire, sent, paused, consumed, calls, pending, waited>>

\* the while condition: millis() is read again, the budget decides
LoopTest(kind) ==
    /\ pc = "while"
    /\ \E d \in Ticks(kind) :
          /\ now' = Add32(now, d)
          /\ waited' = waited + d
          /\ pc' = IF withinBudget(now', startMillis) THEN "available" ELSE "noReceive"
    /\ UNCHANGED <<query, expectedType, parserVars, value, ret, busVars, sent,
                   events, paused, consumed, calls, pending>>

\* RS485.available() is 0: back to the loop condition
PollEmpty ==
    /\ pc = "available"
    /\ rxq = <<>>
    /\ pc' = "while"
    /\ UNCHANGED <<query, expectedType, parserVars, value, ret, now, busVars,
                   sent, events, paused, consumed, calls, pending, waited>>

\* a slip: a completed frame without a colon leaves the loop for the failure
\* exit at once
ReadByte_failFast ==
    /\ pc = "available"
    /\ rxq # <<>>
    /\ LET incoming == Head(rxq)
           r == parseByte(state, response, index, incoming, expectedType)
       IN  /\ rxq' = Tail(rxq)
           /\ consumed' = Record(consumed, incoming)
           /\ state' = r.state
           /\ response' = r.response
           /\ index' = r.index
           /\ IF frameAccepted(r.state, r.response)
              THEN /\ value' = frameValue(r.response)
                   /\ ret' = "true"
                   /\ pc' = "idle"
              ELSE /\ pc' = IF r.state = "DONE" THEN "noReceive" ELSE "while"
                   /\ UNCHANGED <<value, ret>>
    /\ UNCHANGED <<query, expectedType, startMillis, now, rxEnabled, txOpen,
                   wire, sent, events, paused, calls, pending, waited>>

\* a slip: an inner loop reads while bytes are available, the clock is looked
\* at only when the queue is empty
ReadByte_drain ==
    /\ pc = "available"
    /\ rxq # <<>>
    /\ LET incoming == Head(rxq)
           r == parseByte(state, response, index, incoming, expectedType)
       IN  /\ rxq' = Tail(rxq)
           /\ consumed' = Record(consumed, incoming)
           /\ state' = r.state
           /\ response' = r.response
           /\ index' = r.index
           /\ IF frameAccepted(r.state, r.response)
              THEN /\ value' = frameValue(r.response)
                   /\ ret' = "true"
                   /\ pc' = "idle"
              ELSE /\ pc' = "available"
                   /\ UNCHANGED <<value, ret>>
    /\ UNCHANGED <<query, expectedType, startMillis, now, rxEnabled, txOpen,
                   wire, sent, events, paused, calls, pending, waited>>

\* lines 203-232: one byte is read and fed to the switch; a done frame with a
\* colon returns true from inside the loop
ReadByte ==
    /\ pc = "available"
    /\ rxq # <<>>
    /\ LET incoming == Head(rxq)
           r == parseByte(state, response, index, incoming, expectedType)
       IN  /\ rxq' = Tail(rxq)
           /\ consumed' = Record(consumed, incoming)
           /\ state' = r.state
           /\ response' = r.response
           /\ index' = r.index
           /\ IF frameAccepted(r.state, r.response)
              THEN /\ value' = frameValue(r.response)
                   /\ ret' = "true"
                   /\ pc' = "idle"
              ELSE /\ pc' = "while"
                   /\ UNCHANGED <<value, ret>>
    /\ UNCHANGED <<query, expectedType, startMillis, now, rxEnabled, txOpen,
                   wire, sent, events, paused, calls, pending, waited>>

NoReceive ==
    /\ pc = "noReceive"
    /\ rxEnabled' = FALSE
    /\ events' = Append(events, "noReceive")
    /\ pc' = "return"
    /\ UNCHANGED <<query, expectedType, parserVars, value, ret, now, txOpen,
                   rxq, wire, sent, paused, consumed, calls, pending, waited>>

\* a slip: the failure exit clears the caller's variable
ReturnFalse_zero ==
    /\ pc = "return"
    /\ ret' = "false"
    /\ value' = [m |-> 0, e |-> 0]
    /\ pc' = "idle"
    /\ UNCHANGED <<query, expectedType, parserVars, now, busVars, sent,
                   events, paused, consumed, calls, pending, waited>>

\* a slip: the failure exit sends the query again instead of returning
ReturnFalse_retry ==
    /\ pc = "return"
    /\ pc' = "beginTransmission"
    /\ UNCHANGED <<query, expectedType, parserVars, value, ret, now, busVars,
                   sent, events, paused, consumed, calls, pending, waited>>

ReturnFalse ==
    /\ pc = "return"
    /\ ret' = "false"
    /\ pc' = "idle"
    /\ UNCHANGED <<query, expectedType, parserVars, value, now, busVars, sent,
                   events, paused, consumed, calls, pending, waited>>

(* The bus *)

\* a byte from the bus reaches the receive queue while the receive path is on
Arrive ==
    /\ rxEnabled
    /\ wire # <<>>
    /\ Len(rxq) < RxQueueCap
    /\ rxq' = Append(rxq, Head(wire))
    /\ wire' = Tail(wire)
    /\ UNCHANGED <<pc, query, expectedType, parserVars, value, ret, now,
                   rxEnabled, txOpen, sent, events, paused, consumed, calls, pending, waited>>

\* a byte from a sensor that never stops sending: its stream starts over
Repeat ==
    /\ rxEnabled
    /\ wire # <<>>
    /\ Len(rxq) < RxQueueCap
    /\ rxq' = Append(rxq, Head(wire))
    /\ wire' = Append(Tail(wire), Head(wire))
    /\ UNCHANGED <<pc, query, expectedType, parserVars, value, ret, now,
                   rxEnabled, txOpen, sent, events, paused, consumed, calls,
                   pending, waited>>

Entry(kind) ==
    \/ queryTemp(kind)
    \/ queryHumidity(kind)
    \/ queryPressure(kind)
    \/ queryAirQuality(kind)
    \/ queryUV(kind)
    \/ queryRainfall(kind)
    \/ queryWindSpeed(kind)
    \/ queryWindDirection(kind)
    \/ queryCanopyTemperature(kind)
    \/ \E c \in CustomCodes : queryCustom(c, kind)

\* the operations a session calls
SessionEntry ==
    \/ queryTemp("session")
    \/ queryHumidity("session")

\* the operations called on a sensor that never stops sending
LiveEntry ==
    \/ queryTemp("live")
    \/ queryCustom(90, "live")

\* the steps of the calling thread
Thread(kind) ==
    \/ BeginTransmission
    \/ PrintQuery
    \/ Println
    \/ EndTransmission
    \/ Flush
    \/ Delay(kind)
    \/ ParseEnter
    \/ Receive
    \/ LoopTest(kind)
    \/ PollEmpty
    \/ ReadByte
    \/ NoReceive
    \/ ReturnFalse

Run(kind) == Thread(kind) \/ Arrive

\* one query call from the state after begin()
Next == Entry("call") \/ Run("call")

Spec == Init /\ [][Next]_vars

\* one query call made shortly before the millisecond counter wraps
SpecWrap == InitAt(WrapTime) /\ [][Next]_vars

\* a session of up to MaxCalls calls of queryTemp and queryHumidity
NextSession == SessionEntry \/ Run("session")

Session == Init /\ [][NextSession]_vars

\* the scan loop reads millis() anew in every iteration and the counter
\* advances: of the readings, one that has advanced comes again and again
ClockAdvances == LoopTest("live") /\ now' # now

\* one call on a sensor that never stops sending; the thread keeps running
\* and the clock keeps advancing
NextLive == LiveEntry \/ Thread("live") \/ Repeat

Live ==
    /\ Init
    /\ [][NextLive]_vars
    /\ WF_vars(Thread("live"))
    /\ SF_vars(ClockAdvances)

-----------------------------------------------------------------------------
(* Vocabulary of the properties *)

Range(s) == {s[i] : i \in 1 .. Len(s)}

\* the last query call has returned
Returned == pc = "idle" /\ ret # "none"

\* millis() - startMillis as the scan loop last computed it
Elapsed == Sub32(now, startMillis)

TimedOut == ~Less32(Elapsed, WEATHERBUSLITE_RESPONSE_TIMEOUT)

\* the query frame of the current call: '?', the code, the line terminator
QueryFrame == <<QMARK, expectedType, CR, LF>>

RECURSIVE Find(_, _, _)
\* position of the first byte of s at or after i that is in S, 0 if none
Find(s, S, i) ==
    IF i > Len(s) THEN 0 ELSE IF s[i] \in S THEN i ELSE Find(s, S, i + 1)

\* The bytes s read by a call expecting x hold a well-formed response: bytes
\* other than x, x, bytes that are neither ':' nor line-feed nor in `barred',
\* ':', a literal of the table, line-feed, at most 31 bytes from x up to the
\* line-feed.  wfLiteral is the table entry.
wfStart(s, x) == Find(s, {x}, 1)
wfColon(s, x, barred) == Find(s, {COLON, LF} \cup barred, wfStart(s, x) + 1)
wfFeed(s, x, barred) == Find(s, {LF}, wfColon(s, x, barred) + 1)

WellFormed(s, x, barred) ==
    /\ wfStart(s, x) > 0
    /\ wfColon(s, x, barred) > 0
    /\ s[wfColon(s, x, barred)] = COLON
    /\ wfFeed(s, x, barred) > 0
    /\ wfFeed(s, x, barred) - wfStart(s, x) <= RESPONSE_SIZE - 1
    /\ \E l \in Literals :
          l.text = SubSeq(s, wfColon(s, x, barred) + 1, wfFeed(s, x, barred) - 1)

wfLiteral(s, x, barred) ==
    CHOOSE l \in Literals :
        l.text = SubSeq(s, wfColon(s, x, barred) + 1, wfFeed(s, x, barred) - 1)

\* The first frame in the bytes s of a call expecting x: it starts at the
\* first x and is completed by the first line-feed after it or by the byte
\* that arrives when 31 bytes are buffered, whichever comes first.
frameEnd(s, x) ==
    LET i  == Find(s, {x}, 1)
        lf == Find(s, {LF}, i + 1)
        ov == IF Len(s) >= i + RESPONSE_SIZE - 1 THEN i + RESPONSE_SIZE - 1 ELSE 0
    IN  IF i = 0 THEN 0
        ELSE IF lf > 0 /\ (ov = 0 \/ lf < ov) THEN lf
        ELSE ov

FrameCompleted(s, x) == frameEnd(s, x) > 0

Buffered(s, x) == SubSeq(s, Find(s, {x}, 1), frameEnd(s, x) - 1)

IsPrefix(a, b) == Len(a) <= Len(b) /\ a = SubSeq(b, 1, Len(a))

-----------------------------------------------------------------------------
(* C1 *)

\* C1 as stated: a call expecting X that has read bytes other than X, X,
\* bytes that are neither ':' nor line-feed, ':', a decimal literal and a
\* line-feed (at most 31 bytes from X up to the line-feed) returns success
\* with the value of that literal.
C1_AnyPrefixByte ==
    (Returned /\ WellFormed(consumed, expectedType, {})) =>
        /\ ret = "true"
        /\ value = wfLiteral(consumed, expectedType, {}).val

\* C1 (amended): the same, for responses whose bytes between X and the colon
\* are neither ':' nor line-feed nor NUL: once such a response is read the
\* call has returned success with the value of the literal after the first
\* colon, whatever bytes were discarded ahead of the first X.
C1_WellFormedResponse ==
    WellFormed(consumed, expectedType, {NUL}) =>
        /\ Returned
        /\ ret = "true"
        /\ value = wfLiteral(consumed, expectedType, {NUL}).val

\* the response of the specification's example, T23.5extra:19.75 and a
\* line-feed behind a colon of noise, has been parsed to 19.75
C1_Witness ==
    /\ Returned
    /\ ret = "true"
    /\ expectedType = 84
    /\ consumed = <<COLON, 84, 50, 51, 46, 53, 101, 120, 116, 114, 97, COLON>>
                      \o Lit19 \o <<LF>>
    /\ value = [m |-> 1975, e |-> -2]

-----------------------------------------------------------------------------
(* C2 *)

\* C2: whenever a query call has returned, with success or with failure, the
\* receive path is disabled.
C2_ReceiveOffAtReturn == Returned => ~rxEnabled

-----------------------------------------------------------------------------
(* C3 *)

\* C3: in a session of query calls started with the receive path disabled,
\* the transmit session is never open while the receive path is enabled.
C3_OneDirection == ~(txOpen /\ rxEnabled)

-----------------------------------------------------------------------------
(* C4 *)

\* C4: a query call that read no byte returns failure, not before the
\* response timeout has elapsed on its clock, and with the receive path
\* disabled as its last bus operation.
C4_SilenceTimesOut ==
    (Returned /\ consumed = <<>>) =>
        /\ ret = "false"
        /\ TimedOut
        /\ ~rxEnabled
        /\ events[Len(events)] = "noReceive"

\* a call on a silent bus has returned failure exactly 1000 ms after it began
\* to listen
C4_Witness ==
    /\ Returned
    /\ ret = "false"
    /\ consumed = <<>>
    /\ wire = <<>>
    /\ rxq = <<>>
    /\ Elapsed = U32(0, WEATHERBUSLITE_RESPONSE_TIMEOUT)
    /\ ~rxEnabled

-----------------------------------------------------------------------------
(* C5 *)

\* C5: a call returns success only with the parser in DONE, the frame ended
\* by a line-feed or by the byte that found 31 bytes buffered; a call whose
\* parser is still in WAIT_FOR_START or READ_PAYLOAD when it returns has
\* timed out and returns failure, whatever the partial buffer holds.
C5_AllOrNothing ==
    /\ (Returned /\ ret = "true") =>
          /\ state = "DONE"
          /\ \/ consumed[Len(consumed)] = LF
             \/ index = RESPONSE_SIZE - 1
    /\ (Returned /\ state # "DONE") => (ret = "false" /\ TimedOut)

\* a call has timed out in READ_PAYLOAD and returned failure with the code,
\* a colon and the digits of 19.75 in its buffer, the caller's value untouched
C5_Witness ==
    /\ Returned
    /\ ret = "false"
    /\ state = "READ_PAYLOAD"
    /\ response[0] = expectedType
    /\ strchr(response, COLON) # -1
    /\ atof(CStr(response, strchr(response, COLON) + 1)) = [m |-> 1975, e |-> -2]
    /\ value = CallerValue

-----------------------------------------------------------------------------
(* C6 *)

\* C6: once the first frame of a call is complete (by line-feed or by
\* overflow) and its buffered bytes hold no colon, the call does not return
\* success, whatever it reads afterwards: when it returns, it returns failure.
C6_NoColonFails ==
    (FrameCompleted(consumed, expectedType)
        /\ COLON \notin Range(Buffered(consumed, expectedType))) =>
        /\ ret # "true"
        /\ Returned => ret = "false"

\* a call has read a frame without a colon and then a well-formed frame, and
\* has returned failure
C6_Witness ==
    /\ Returned
    /\ ret = "false"
    /\ consumed = <<expectedType, 49, 50, LF, expectedType, COLON, 55, LF>>

-----------------------------------------------------------------------------
(* C7 *)

\* C7: for every channel code X, as long as no byte read by the call equals
\* X the parser is in WAIT_FOR_START with index 0 and an all-zero buffer,
\* and the call, when it returns, has timed out and returns failure.
C7_ChannelIsolation ==
    (expectedType \notin Range(consumed)) =>
        /\ state = "WAIT_FOR_START"
        /\ index = 0
        /\ response = Zeros
        /\ ret # "true"
        /\ Returned => (ret = "false" /\ TimedOut)

\* a humidity query has read a complete temperature frame, discarded all of
\* it and returned failure
C7_Witness ==
    /\ Returned
    /\ ret = "false"
    /\ expectedType = 72
    /\ consumed = <<84, COLON, 55, LF>>
    /\ state = "WAIT_FOR_START"

-----------------------------------------------------------------------------
(* C8 *)

\* the bus operations of a call that runs to the failure exit
BusOrder ==
    <<"beginTransmission", "print", "println", "endTransmission", "flush",
      "delay", "receive", "noReceive">>

\* C8: in every call the bus operations occur in the order beginTransmission,
\* print of '?' and the code, println, endTransmission, flush, delay, receive;
\* the pause is at least the grace period and receive is not called before
\* the pause is over.
C8_GraceBeforeReceive ==
    /\ IsPrefix(events, BusOrder)
    /\ (Len(events) = 2) => sent = <<QMARK, expectedType>>
    /\ (Len(events) >= 3) => sent = QueryFrame
    /\ (Len(events) < 6) => paused = 0
    /\ (Len(events) >= 6) => paused >= WEATHERBUSLITE_GRACE
    /\ rxEnabled => Len(events) >= 7

\* the receive path has just been enabled, after a pause of exactly the
\* grace period, by a call of queryCustom('Z')
C8_Witness ==
    /\ pc = "while"
    /\ events = SubSeq(BusOrder, 1, 7)
    /\ paused = WEATHERBUSLITE_GRACE
    /\ sent = <<QMARK, 90, CR, LF>>
    /\ rxEnabled

-----------------------------------------------------------------------------
(* C9 *)

-----------------------------------------------------------------------------
(* C10 *)

\* C10 (README): a call that got no response and reports failure has sent the
\* query frame more than once.
C10_RetriesBeforeGivingUp ==
    (Returned /\ ret = "false" /\ consumed = <<>>) =>
        Cardinality({i \in 1 .. Len(events) : events[i] = "print"}) > 1

-----------------------------------------------------------------------------
(* C11 *)

\* texts that follow a first colon on the bus and the number each begins
\* with: 19.75, -2.50, 7, 9, 19.7, 19.75xyz, abc
NumericTexts ==
    { [text |-> <<49, 57, 46, 55, 53>>, val |-> [m |-> 1975, e |-> -2]],
      [text |-> <<45, 50, 46, 53, 48>>, val |-> [m |-> -25, e |-> -1]],
      [text |-> <<55>>,                 val |-> [m |-> 7, e |-> 0]],
      [text |-> <<57>>,                 val |-> [m |-> 9, e |-> 0]],
      [text |-> <<49, 57, 46, 55>>,     val |-> [m |-> 197, e |-> -1]],
      [text |-> <<49, 57, 46, 55, 53, 120, 121, 122>>,
                                        val |-> [m |-> 1975, e |-> -2]],
      [text |-> <<97, 98, 99>>,         val |-> [m |-> 0, e |-> 0]] }

\* what follows the first colon of the frame b
AfterColon(b) == SubSeq(b, Find(b, {COLON}, 1) + 1, Len(b))

\* the frame b holds a colon and no NUL ahead of its first colon
ColonInSight(b) ==
    Find(b, {COLON, NUL}, 1) > 0 /\ b[Find(b, {COLON, NUL}, 1)] = COLON

\* C11 as stated: a call whose first frame is complete and contains a colon
\* returns success.
C11_ColonMeansSuccess ==
    (Returned /\ FrameCompleted(consumed, expectedType)
        /\ COLON \in Range(Buffered(consumed, expectedType))) => ret = "true"

\* C11 (amended): once the first frame of a call is complete and contains a
\* colon with no NUL byte ahead of it, the call has returned success, and the
\* value is the number the text after the first colon begins with: 19.75 for
\* 19.75xyz, 0.0 for abc.
C11_NumericPrefix ==
    (FrameCompleted(consumed, expectedType)
        /\ ColonInSight(Buffered(consumed, expectedType))) =>
        /\ Returned
        /\ ret = "true"
        /\ \E t \in NumericTexts :
              /\ t.text = AfterColon(Buffered(consumed, expectedType))
              /\ value = t.val

\* the frame T:abc has been read and the call has returned success with 0.0
C11_Witness ==
    /\ Returned
    /\ ret = "true"
    /\ consumed = <<84, COLON, 97, 98, 99, LF>>
    /\ value = [m |-> 0, e |-> 0]

-----------------------------------------------------------------------------
(* C12 *)

\* C12: in every operation the query sent is '?' followed by the code the
\* parser expects, and each fixed-channel operation enters a call exactly as
\* queryCustom does with that channel's code: the same query, the same
\* expected code, the same streams ahead.  sendQuery and parseResponse are
\* shared, so the frame sent and the result for a given stream and timing
\* are the same.
C12_FixedIsGeneric ==
    /\ [](calls > 0 => (query = <<QMARK, expectedType>> /\ IsPrefix(sent, QueryFrame)))
    /\ [][ /\ queryTemp("call") <=> queryCustom(84, "call")
           /\ queryHumidity("call") <=> queryCustom(72, "call")
           /\ queryPressure("call") <=> queryCustom(80, "call")
           /\ queryAirQuality("call") <=> queryCustom(65, "call")
           /\ queryUV("call") <=> queryCustom(85, "call")
           /\ queryRainfall("call") <=> queryCustom(82, "call")
           /\ queryWindSpeed("call") <=> queryCustom(87, "call")
           /\ queryWindDirection("call") <=> queryCustom(68, "call")
           /\ queryCanopyTemperature("call") <=> queryCustom(67, "call") ]_vars

\* queryCustom('Z') has sent ?Z, read Z:7 and returned success with 7
C12_Witness ==
    /\ Returned
    /\ ret = "true"
    /\ query = <<QMARK, 90>>
    /\ sent = <<QMARK, 90, CR, LF>>
    /\ consumed = <<90, COLON, 55, LF>>
    /\ value = [m |-> 7, e |-> 0]

-----------------------------------------------------------------------------
(* C13 *)

\* the first frame of the bytes s was completed by overflow: 31 bytes from
\* the code on were buffered with no line-feed among them and one more byte
\* has been read
Overflowed(s, x) ==
    wfStart(s, x) > 0 /\ frameEnd(s, x) = wfStart(s, x) + RESPONSE_SIZE - 1

\* C13 as stated: a call whose frame was completed by overflow with a colon
\* among the 31 buffered bytes returns success.
C13_OverflowColonSucceeds ==
    (Returned /\ Overflowed(consumed, expectedType)
        /\ COLON \in Range(Buffered(consumed, expectedType))) => ret = "true"

\* C13 (amended): once 31 bytes from the code on are buffered without a
\* line-feed and a further byte is read, the parser is in DONE with index 31
\* and that byte not stored; the call has returned success with the number
\* after the first colon if the 31 bytes hold a colon with no NUL byte ahead
\* of it, and otherwise it does not succeed: a colon read later is not seen.
C13_OverflowCompletes ==
    Overflowed(consumed, expectedType) =>
        /\ state = "DONE"
        /\ index = RESPONSE_SIZE - 1
        /\ CStr(response, 0) = CStr([i \in 0 .. RESPONSE_SIZE - 1 |->
                                       IF i < RESPONSE_SIZE - 1
                                       THEN Buffered(consumed, expectedType)[i + 1]
                                       ELSE NUL], 0)
        /\ IF ColonInSight(Buffered(consumed, expectedType))
           THEN /\ Returned
                /\ ret = "true"
                /\ \E t \in NumericTexts :
                      /\ t.text = AfterColon(Buffered(consumed, expectedType))
                      /\ value = t.val
           ELSE /\ ret # "true"
                /\ Returned => ret = "false"

\* a frame of 32 bytes without a line-feed, its colon among the first 31, has
\* been cut at 31 bytes and has given 19.7
C13_Witness ==
    /\ Returned
    /\ ret = "true"
    /\ Len(consumed) = RESPONSE_SIZE
    /\ LF \notin Range(consumed)
    /\ index = RESPONSE_SIZE - 1
    /\ value = [m |-> 197, e |-> -1]

-----------------------------------------------------------------------------
(* C14 *)

\* C14: with the thread running and the clock advancing, every query call
\* that was entered returns, whether the sensor is silent or never stops
\* sending; each iteration of the scan loop reads the clock, then takes at
\* most one byte from the queue and goes back to the clock or returns; the
\* loop is inside only with the budget unspent and is left for the failure
\* exit only with the budget spent.
C14_EveryCallReturns ==
    /\ (pc # "idle") ~> Returned
    /\ [][(pc = "available" /\ pc' # pc) =>
              /\ pc' \in {"while", "idle"}
              /\ Len(rxq') >= Len(rxq) - 1]_vars
    /\ [][(pc = "while" /\ pc' # pc) =>
              /\ pc' \in {"available", "noReceive"}
              /\ rxq' = rxq
              /\ consumed' = consumed]_vars
    /\ [](pc = "available" => waited < WEATHERBUSLITE_RESPONSE_TIMEOUT)
    /\ [](pc \in {"noReceive", "return"} =>
              waited >= WEATHERBUSLITE_RESPONSE_TIMEOUT)

\* a call has returned failure on a sensor that is still sending, after more
\* bytes than the buffer holds were read
C14_Witness ==
    /\ Returned
    /\ ret = "false"
    /\ wire # <<>>
    /\ Len(consumed) > RESPONSE_SIZE
    /\ waited >= WEATHERBUSLITE_RESPONSE_TIMEOUT

-----------------------------------------------------------------------------
(* C15 *)

\* C15: the write index is between 0 and 31 and the buffer has its 32 cells;
\* the index is 0 exactly while the parser awaits the start byte; a non-empty
\* buffer starts with the expected code; the cells below the index hold the
\* bytes read from the code on and the cells from the index on are NUL, so
\* that a completed frame holds the bytes ahead of the completing byte and
\* not that byte, be it a line-feed or the byte that found the buffer full.
C15_BufferShape ==
    /\ index \in 0 .. RESPONSE_SIZE - 1
    /\ DOMAIN response = 0 .. RESPONSE_SIZE - 1
    /\ index = 0 <=> state = "WAIT_FOR_START"
    /\ index > 0 => response[0] = expectedType
    /\ \A i \in 0 .. RESPONSE_SIZE - 1 :
          response[i] = IF i < index
                        THEN consumed[wfStart(consumed, expectedType) + i]
                        ELSE NUL
    /\ state = "READ_PAYLOAD" =>
          /\ ~FrameCompleted(consumed, expectedType)
          /\ index = Len(consumed) - wfStart(consumed, expectedType) + 1
    /\ state = "DONE" =>
          /\ FrameCompleted(consumed, expectedType)
          /\ index = Len(Buffered(consumed, expectedType))

\* a frame was completed by the byte that found 31 bytes buffered: the index
\* is 31, the last cell is NUL and the 32nd byte of the frame is in no cell
C15_Witness ==
    /\ state = "DONE"
    /\ index = RESPONSE_SIZE - 1
    /\ response[RESPONSE_SIZE - 2] = 120
    /\ response[RESPONSE_SIZE - 1] = NUL
    /\ consumed[Len(consumed)] = COLON
    /\ COLON \notin {response[i] : i \in 0 .. RESPONSE_SIZE - 1}

-----------------------------------------------------------------------------
(* C16 *)

\* the parser is in DONE and no cell of the buffer is a colon
DoneWithoutColon ==
    state = "DONE" /\ COLON \notin {response[i] : i \in 0 .. RESPONSE_SIZE - 1}

\* C16: from DONE with a buffer without colon no step of the call changes
\* the parser state, the buffer or the index; the step that completes such a
\* frame goes back to the loop condition, later bytes are read one by one
\* and dropped, and the call does not succeed: when it has returned it has
\* returned failure after the whole response timeout.
C16_DoneIsFinal ==
    /\ [][(DoneWithoutColon /\ calls' = calls) =>
              /\ state' = "DONE"
              /\ response' = response
              /\ index' = index]_vars
    /\ [][(state # "DONE" /\ DoneWithoutColon') => pc' = "while"]_vars
    /\ [][(DoneWithoutColon /\ pc = "available" /\ pc' # pc /\ rxq # <<>>) =>
              /\ rxq' = Tail(rxq)
              /\ pc' = "while"]_vars
    /\ [](DoneWithoutColon =>
              /\ ret # "true"
              /\ pc \in {"while", "available", "noReceive", "return", "idle"}
              /\ pc \in {"noReceive", "return", "idle"} =>
                    waited >= WEATHERBUSLITE_RESPONSE_TIMEOUT
              /\ pc = "idle" => ret = "false")

\* a frame without colon was completed, bytes after it were read and dropped,
\* and the call has returned failure
C16_Witness ==
    /\ Returned
    /\ ret = "false"
    /\ DoneWithoutColon
    /\ Len(consumed) > frameEnd(consumed, expectedType)
    /\ waited >= WEATHERBUSLITE_RESPONSE_TIMEOUT

-----------------------------------------------------------------------------
(* C17 *)

\* C17: as long as a query call has not returned success the caller's
\* variable holds what it held before the call, so a failing call leaves it
\* unchanged; the variable changes only in the step that returns success,
\* and after that step no step of the call changes it again.
C17_ValueOnlyOnSuccess ==
    /\ [](ret # "true" => value = CallerValue)
    /\ [][value' # value => (ret # "true" /\ ret' = "true" /\ pc' = "idle")]_vars
    /\ [][(ret = "true" /\ calls' = calls) => (value' = value /\ ret' = ret)]_vars

\* a frame that completed without a colon was followed by the timeout: the
\* call has returned failure and the caller's variable is as it was
C17_Witness ==
    /\ Returned
    /\ ret = "false"
    /\ state = "DONE"
    /\ consumed # <<>>
    /\ value = CallerValue

-----------------------------------------------------------------------------
(* C18 *)

\* the bytes of `pending' the call has not read yet
Unread == SubSeq(pending, Len(consumed) + 1, Len(pending))

\* C18: the bytes that were in the receive queue when a query call was
\* entered are the first bytes the call reads, in their order, and those it
\* has not read yet are still at the head of the queue; if they hold a
\* complete frame that starts with the expected code and has its colon in
\* sight, then once the call has read that frame it has returned success with
\* a value taken from that frame, the number of the table for a text of the
\* table, and no later byte was read.
C18_PendingIsRead ==
    /\ IF Len(consumed) <= Len(pending)
       THEN IsPrefix(consumed, pending) /\ IsPrefix(Unread, rxq)
       ELSE IsPrefix(pending, consumed)
    /\ (/\ FrameCompleted(pending, expectedType)
        /\ ColonInSight(Buffered(pending, expectedType))
        /\ Len(consumed) >= frameEnd(pending, expectedType)) =>
           /\ Returned
           /\ ret = "true"
           /\ consumed = SubSeq(pending, 1, frameEnd(pending, expectedType))
           /\ value # CallerValue
           /\ \A t \in NumericTexts :
                 t.text = AfterColon(Buffered(pending, expectedType)) =>
                    value = t.val

\* the second call of a session found the frame T:9 of the first call's
\* sensor in the queue and has returned 9, nothing else read
C18_Witness ==
    /\ calls = 2
    /\ Returned
    /\ ret = "true"
    /\ pending = <<84, COLON, 57, LF>>
    /\ consumed = pending
    /\ value = [m |-> 9, e |-> 0]

-----------------------------------------------------------------------------
(* C19 *)

\* parseResponse is in its scan loop or on its failure exit
Scanning == pc \in {"while", "available", "noReceive", "return"}

\* C19: in a call entered less than the response timeout before the 32-bit
\* millisecond counter wraps, the unsigned difference millis() - startMillis
\* is the time that has passed since the call took its start time, before
\* the wrap and after it; the loop body runs only with less than the timeout
\* passed and the failure exit is taken only with the timeout passed.
C19_WrapSafe ==
    /\ Scanning => Elapsed = U32(0, waited)
    /\ pc = "available" => waited < WEATHERBUSLITE_RESPONSE_TIMEOUT
    /\ (pc \in {"noReceive", "return"} \/ (Returned /\ ret = "false")) =>
          waited >= WEATHERBUSLITE_RESPONSE_TIMEOUT

\* a call that took its start time before the wrap has timed out after the
\* wrap, 1000 ms after its start
C19_Witness ==
    /\ Returned
    /\ ret = "false"
    /\ startMillis.hi = W16 - 1
    /\ now.hi = 0
    /\ now.lo < startMillis.lo
    /\ waited = WEATHERBUSLITE_RESPONSE_TIMEOUT

====
